---- MODULE Spec2Model ----
(***************************************************************************)
(* Model of mcp-auth-helper: the one-shot OAuth authorization-code + PKCE  *)
(* flow of main (index.ts), the callback listener (server.ts), the wire    *)
(* helpers (oauth.ts) and the auth file (storage.ts).                      *)
(*                                                                         *)
(* Conventions.  A JavaScript value that may be undefined/null is a set of *)
(* at most one element: {} is undefined (or null), {v} is the value v.     *)
(* An object is a function from its own keys to such values; an error is   *)
(* the sequence of the fragments of its message.                           *)
(***************************************************************************)
EXTENDS Integers, Sequences, FiniteSets, TLC

(* ------------------------------ bounds -------------------------------- *)
MaxRequests == 2        \* HTTP requests the listener handles in one run
MaxErrors == 1          \* 'error' events the listening server emits

(* --------------------------- program constants ------------------------ *)
DefaultCallbackPort == 19876

(* ------------------------------ inputs -------------------------------- *)
ServerNames == {"figma", "other"}                     \* keys of the auth file
TargetNames == {"figma"}                              \* <server-name> argument
ServerUrl == <<"https://mcp.figma.com", "/mcp">>      \* <<origin, path>>
ClientName == "Codex"
States == {"X", "Y"}                                  \* crypto.randomUUID()
\* crypto.randomBytes(32) and the 32 bytes of a SHA-256 digest
RandomLength == 32
DigestLength == 32
\* byte values that encode to letters, digits, "-" and "_"
ByteValues == {0, 105, 251, 255}
\* the random bytes: a run of one byte value followed by a run of another
RandomBytes ==
  {[i \in 1..RandomLength |-> IF i <= k THEN a ELSE b] :
      a \in ByteValues, b \in ByteValues, k \in 0..RandomLength}
\* the random bytes drawn in the runs of main
Verifiers == {[i \in 1..RandomLength |-> 251]}
Nows == {1000}                                        \* epoch seconds

None == {}
Some(v) == {v}
TruthyStr(o) == o # {} /\ o # {""}
\* A JSON value that is not a string (the number 1), written as a token; the
\* casts `as string | undefined` do not look at the type of a value.
JsonNumber == "<number 1>"
IsString(o) == o # {} /\ o # {JsonNumber}
TruthyNum(o) == o # {} /\ o # {0}
The(o) == CHOOSE v \in o : TRUE

EmptyMap == [n \in {} |-> {}]
Restrict(f, S) == [k \in S |-> f[k]]

(* ------------------------------ storage.ts ---------------------------- *)
ObjKeys == {"clientInfo", "tokens"}

\* JSON.stringify of a flat object: properties whose value is undefined are dropped
StringifyObj(o) == Restrict(o, {k \in DOMAIN o : o[k] # {}})

StringifyEntry(e) ==
  [k \in {k \in DOMAIN e : k \in ObjKeys \/ e[k] # {}} |->
     IF k \in ObjKeys THEN StringifyObj(e[k]) ELSE e[k]]

Stringify(data) == [n \in DOMAIN data |-> StringifyEntry(data[n])]

\* The file on disk: whether its directory and the file exist, its permission
\* bits, and its content (valid JSON mapping, or text that does not parse).
MissingFile(dirExists) ==
  [dir |-> dirExists, exists |-> FALSE, mode |-> "none", valid |-> FALSE, data |-> EmptyMap]

readAuthFile(f) == IF f.exists /\ f.valid THEN f.data ELSE EmptyMap

writeAuthFile(data, f) ==
  [dir |-> TRUE, exists |-> TRUE,
   mode |-> IF f.exists THEN f.mode ELSE "0600",
   valid |-> TRUE, data |-> Stringify(data)]

(* ------------------------------- oauth.ts ----------------------------- *)
WellKnownPath == "/.well-known/oauth-authorization-server"
wellKnownUrl(serverUrl) == <<serverUrl[1], WellKnownPath>>

AuthUrlOk == "https://ex.com/auth"
TokenUrlOk == "https://ex.com/token"
RegisterUrlOk == "https://ex.com/register"
\* the strings new URL() accepts
ValidUrls == {AuthUrlOk, TokenUrlOk, RegisterUrlOk}

\* A response of fetch: the network failed, or a status with a body that is
\* JSON (json) or not (valid = FALSE).
NetworkFailure == [net |-> FALSE, status |-> 0, valid |-> FALSE, json |-> EmptyMap]
Response(status, json) == [net |-> TRUE, status |-> status, valid |-> TRUE, json |-> json]
Malformed(status) == [net |-> TRUE, status |-> status, valid |-> FALSE, json |-> EmptyMap]

Get(json, k) == IF k \in DOMAIN json THEN json[k] ELSE None

Ok(v) == [ok |-> TRUE, value |-> v, error |-> <<>>]
Throw(e) == [ok |-> FALSE, value |-> EmptyMap, error |-> e]

fetchJSON(url, res) ==
  IF ~res.net THEN Throw(<<"fetch failed">>)
  ELSE IF ~(res.status \in 200..299)
       THEN Throw(<<"HTTP ", ToString(res.status), " from ">> \o url)
  ELSE IF ~res.valid THEN Throw(<<"Unexpected token in JSON">>)
  ELSE Ok(res.json)

discoverOAuthEndpoints(serverUrl, res) ==
  LET url == wellKnownUrl(serverUrl)
      r == fetchJSON(url, res)
      authorizationEndpoint == Get(r.value, "authorization_endpoint")
      tokenEndpoint == Get(r.value, "token_endpoint")
      inner == IF ~r.ok THEN r
               ELSE IF ~TruthyStr(authorizationEndpoint) \/ ~TruthyStr(tokenEndpoint)
                    THEN Throw(<<"OAuth metadata missing required fields (authorization_endpoint, token_endpoint)">>)
               ELSE Ok([authorizationEndpoint |-> authorizationEndpoint,
                        tokenEndpoint |-> tokenEndpoint,
                        registrationEndpoint |-> Get(r.value, "registration_endpoint")])
  IN IF inner.ok THEN inner
     ELSE Throw(<<"Failed to discover OAuth endpoints from ">> \o url \o <<": ">> \o inner.error)

registerClient(registrationEndpoint, redirectUri, clientName, res) ==
  LET r == fetchJSON(<<registrationEndpoint>>, res)
      clientId == Get(r.value, "client_id")
  IN IF ~r.ok THEN r
     ELSE IF ~TruthyStr(clientId)
          THEN Throw(<<"Client registration did not return a client_id">>)
     ELSE Ok([clientId |-> clientId,
              clientSecret |-> Get(r.value, "client_secret"),
              clientIdIssuedAt |-> Get(r.value, "client_id_issued_at"),
              clientSecretExpiresAt |-> Get(r.value, "client_secret_expires_at")])

RegistrationBody(redirectUri, clientName) ==
  [redirect_uris |-> <<redirectUri>>, client_name |-> clientName,
   grant_types |-> <<"authorization_code", "refresh_token">>,
   response_types |-> <<"code">>, token_endpoint_auth_method |-> "none"]

\* the alphabet of "base64url", then that of "base64"
Base64UrlAlphabet ==
  <<
     "A", "B", "C", "D", "E", "F", "G", "H", "I", "J", "K", "L", "M", "N", "O", "P",
     "Q", "R", "S", "T", "U", "V", "W", "X", "Y", "Z", "a", "b", "c", "d", "e", "f",
     "g", "h", "i", "j", "k", "l", "m", "n", "o", "p", "q", "r", "s", "t", "u", "v",
     "w", "x", "y", "z", "0", "1", "2", "3", "4", "5", "6", "7", "8", "9", "-", "_" >>
Base64Alphabet ==
  <<
     "A", "B", "C", "D", "E", "F", "G", "H", "I", "J", "K", "L", "M", "N", "O", "P",
     "Q", "R", "S", "T", "U", "V", "W", "X", "Y", "Z", "a", "b", "c", "d", "e", "f",
     "g", "h", "i", "j", "k", "l", "m", "n", "o", "p", "q", "r", "s", "t", "u", "v",
     "w", "x", "y", "z", "0", "1", "2", "3", "4", "5", "6", "7", "8", "9", "+", "/" >>

\* the classic alphabet, with "+" and "/"
Base64Char(n) == Base64Alphabet[n + 1]
Base64UrlChar(n) == Base64UrlAlphabet[n + 1]

\* "=" up to a multiple of four characters, as "base64" pads
Base64Padding(n) == [i \in 1..((3 - (n % 3)) % 3) |-> "="]
\* "base64url" does not pad
Base64UrlPadding(n) == <<>>

\* the 6-bit groups of a byte sequence, three bytes to four groups
RECURSIVE Sextets(_)
Sextets(bytes) ==
  IF Len(bytes) = 0 THEN <<>>
  ELSE IF Len(bytes) = 1
       THEN <<bytes[1] \div 4, (bytes[1] % 4) * 16>>
  ELSE IF Len(bytes) = 2
       THEN <<bytes[1] \div 4, (bytes[1] % 4) * 16 + bytes[2] \div 16, (bytes[2] % 16) * 4>>
  ELSE <<bytes[1] \div 4, (bytes[1] % 4) * 16 + bytes[2] \div 16,
         (bytes[2] % 16) * 4 + bytes[3] \div 64, bytes[3] % 64>>
       \o Sextets(SubSeq(bytes, 4, Len(bytes)))

\* buf.toString("base64url")
Base64Url(bytes) ==
  LET g == Sextets(bytes)
  IN [i \in 1..Len(g) |-> Base64UrlChar(g[i])] \o Base64UrlPadding(Len(bytes))

\* [a-zA-Z0-9\-._~]
Unreserved ==
  {Base64UrlAlphabet[i] : i \in 1..62} \cup {"-", ".", "_", "~"}

\* .replace(/[^a-zA-Z0-9\-._~]/g, "")
Strip(str) == SelectSeq(str, LAMBDA c : c \in Unreserved)

\* SHA-256 is a fixed function from the characters hashed to 32 bytes; a
\* stand-in with that signature which depends on every character takes its
\* place.
CharCode(c) == CHOOSE i \in 1..64 : Base64UrlAlphabet[i] = c
RECURSIVE SumCodes(_)
SumCodes(str) == IF str = <<>> THEN 0 ELSE CharCode(Head(str)) + SumCodes(Tail(str))
Sha256(str) == [i \in 1..DigestLength |-> (SumCodes(str) * i + Len(str)) % 256]

generatePKCE(random) ==
  LET codeVerifier == Strip(Base64Url(random))
      hash == Sha256(codeVerifier)
  IN [codeVerifier |-> codeVerifier, codeChallenge |-> Base64Url(hash)]

buildAuthorizationUrl(authorizationEndpoint, clientId, redirectUri, codeChallenge, state) ==
  IF authorizationEndpoint \notin ValidUrls THEN Throw(<<"Invalid URL">>)
  ELSE Ok([endpoint |-> authorizationEndpoint, response_type |-> "code",
           client_id |-> clientId, redirect_uri |-> redirectUri,
           code_challenge |-> codeChallenge, code_challenge_method |-> "S256",
           state |-> state])

\* the redirect URI of the exchange written without the port
TokenBodyDefaultPort(code, codeVerifier, clientId, redirectUri) ==
  [grant_type |-> "authorization_code", code |-> code, code_verifier |-> codeVerifier,
   client_id |-> clientId, redirect_uri |-> <<"http://localhost:", "/callback">>]

TokenBody(code, codeVerifier, clientId, redirectUri) ==
  [grant_type |-> "authorization_code", code |-> code, code_verifier |-> codeVerifier,
   client_id |-> clientId, redirect_uri |-> redirectUri]

exchangeCodeForTokens(tokenEndpoint, res) ==
  LET r == fetchJSON(<<tokenEndpoint>>, res)
      accessToken == Get(r.value, "access_token")
      tokenType == Get(r.value, "token_type")
  IN IF ~r.ok THEN r
     ELSE IF ~TruthyStr(accessToken)
          THEN Throw(<<"Token response missing access_token">>)
     ELSE Ok([access_token |-> accessToken,
              refresh_token |-> Get(r.value, "refresh_token"),
              expires_in |-> Get(r.value, "expires_in"),
              scope |-> Get(r.value, "scope"),
              token_type |-> IF TruthyStr(tokenType) THEN tokenType ELSE Some("Bearer")])

(* ------------------------- environment inputs ------------------------- *)

Metadata(a, t) == [authorization_endpoint |-> a, token_endpoint |-> t]

DiscoveryResponses ==
  { Response(200, Metadata(Some(AuthUrlOk), Some(TokenUrlOk)) @@ [registration_endpoint |-> Some(RegisterUrlOk)]),
    Response(200, Metadata(Some("not-a-url"), Some(TokenUrlOk)) @@ [registration_endpoint |-> Some(RegisterUrlOk)]),
    Response(200, Metadata(Some(AuthUrlOk), Some(TokenUrlOk))),
    Response(200, Metadata(Some(JsonNumber), Some(TokenUrlOk)) @@ [registration_endpoint |-> Some(RegisterUrlOk)]),
    Response(200, Metadata(Some(AuthUrlOk), Some(TokenUrlOk)) @@ [registration_endpoint |-> Some("")]),
    Response(200, [authorization_endpoint |-> Some(AuthUrlOk)]),
    Response(404, EmptyMap),
    Malformed(200),
    NetworkFailure }

RegistrationResponses ==
  { Response(201, [client_id |-> Some("cid123")]),
    Response(200, [client_id |-> Some("cid123"), client_secret |-> Some("sec"),
                   client_id_issued_at |-> Some(1700)]),
    Response(200, EmptyMap),
    Response(200, [client_id |-> Some("")]),
    Response(403, EmptyMap),
    NetworkFailure }

TokenResponses ==
  { Response(200, [access_token |-> Some("tok1"), expires_in |-> Some(3600), token_type |-> Some("Bearer")]),
    Response(200, [access_token |-> Some("tok1"), expires_in |-> Some(0)]),
    Response(200, [access_token |-> Some("tok1"), refresh_token |-> Some("ref1"), scope |-> Some("read")]),
    Response(200, [expires_in |-> Some(3600)]),
    Response(200, [access_token |-> Some("")]),
    Response(400, EmptyMap),
    Malformed(200) }

\* Entries other runs (or other tools) left in the file
OldDone ==
  [tokens |-> [accessToken |-> Some("old")], clientInfo |-> [clientId |-> Some("oldcid")],
   serverUrl |-> Some(ServerUrl)]
OldCheckpoint ==
  [clientInfo |-> [clientId |-> Some("oldcid")], codeVerifier |-> Some(<<"o", "l", "d", "v">>),
   oauthState |-> Some("olds"), serverUrl |-> Some(ServerUrl)]
OldEntries == {OldDone, OldCheckpoint}

\* A file that parses holds a JSON object from server-names to entries, as
\* the type AuthFile says.
ExistingFile(mode, valid, data) ==
  [dir |-> TRUE, exists |-> TRUE, mode |-> mode, valid |-> valid, data |-> data]

InitialFiles ==
  {MissingFile(d) : d \in BOOLEAN}
  \cup {ExistingFile("0644", FALSE, EmptyMap)}
  \cup {ExistingFile(m, TRUE, EmptyMap) : m \in {"0600", "0644"}}
  \cup {ExistingFile("0600", TRUE, d) :
           d \in UNION {[S -> OldEntries] : S \in (SUBSET ServerNames) \ {{}}}}

(* ------------------------------- state -------------------------------- *)
VARIABLES
  pc,             \* position of main (index.ts)
  exitCode,       \* process exit code, {} while the process runs
  err,            \* the error main was rejected with
  serverName,     \* config.serverName
  authData, endpoints, client, pkce, state, entry, authUrl, callback, tokenResponse,
  file,           \* the auth file on disk
  file0,          \* the auth file as it was before the invocation
  writes,         \* number of completed writeAuthFile calls
  discRequests, regRequests, tokenRequests,   \* requests sent on the wire
  shown,          \* authorization URLs printed and handed to the browser
  steps,          \* the steps main has run, in order
  server,         \* the listener's socket: none, binding, listening, closed, bind_failed
  timeout,        \* the timer: none, armed, cleared, fired
  settled,        \* the single-resolution guard
  promise,        \* the promise startCallbackServer returned
  calls,          \* resolve/reject invocations made by the listener
  terminals,      \* terminal events of the listener, in order
  responses,      \* HTTP status of every request answered
  lastReq,        \* the request answered last
  openConn,       \* a connection accepted before close() is still open
  nerr,           \* 'error' events emitted by the listening server
  errorCode,      \* err.code of the last 'error' event
  port            \* the port passed to server.listen

mainVars == <<pc, exitCode, err, serverName, authData, endpoints, client, pkce, state,
              entry, authUrl, callback, tokenResponse>>
wireVars == <<file, file0, writes, discRequests, regRequests, tokenRequests, shown, steps>>
lsnVars == <<server, timeout, settled, promise, calls, terminals, responses, lastReq,
             openConn, nerr, errorCode, port>>
vars == <<mainVars, wireVars, lsnVars>>

callbackPort == DefaultCallbackPort
redirectUri == <<"http://localhost:", ToString(callbackPort), "/callback">>

Pending == [status |-> "pending", value |-> {}, reason |-> {}]

Init ==
  /\ pc = "start"
  /\ exitCode = {}
  /\ err = <<>>
  /\ serverName \in TargetNames
  /\ authData = EmptyMap
  /\ endpoints = {}
  /\ client = {}
  /\ pkce = {}
  /\ state = {}
  /\ entry = EmptyMap
  /\ authUrl = {}
  /\ callback = {}
  /\ tokenResponse = {}
  /\ file \in InitialFiles
  /\ file0 = file
  /\ writes = 0
  /\ discRequests = <<>>
  /\ regRequests = <<>>
  /\ tokenRequests = <<>>
  /\ shown = <<>>
  /\ steps = <<>>
  /\ server = "none"
  /\ timeout = "none"
  /\ settled = FALSE
  /\ promise = Pending
  /\ calls = <<>>
  /\ terminals = <<>>
  /\ responses = <<>>
  /\ lastReq = {}
  /\ openConn = FALSE
  /\ nerr = 0
  /\ errorCode = {}
  /\ port = {}

(* ------------------------------ index.ts ------------------------------ *)
\* main throws e: the promise of main is rejected, main().catch runs next
Fail(e) ==
  /\ pc' = "rejected"
  /\ err' = e

\* reading creates the file when there is none to parse
ReadAuthFileCreates ==
  /\ pc = "start"
  /\ authData' = readAuthFile(file)
  /\ file' = IF file.exists /\ file.valid THEN file ELSE writeAuthFile(EmptyMap, file)
  /\ pc' = "discover"
  /\ steps' = Append(steps, "read")
  /\ UNCHANGED <<exitCode, err, serverName, endpoints, client, pkce, state, entry, authUrl,
                 callback, tokenResponse>>
  /\ UNCHANGED <<file0, writes, discRequests, regRequests, tokenRequests, shown>>
  /\ UNCHANGED lsnVars

\* Step 1: Read existing auth file
ReadAuthFile ==
  /\ pc = "start"
  /\ authData' = readAuthFile(file)
  /\ pc' = "discover"
  /\ steps' = Append(steps, "read")
  /\ UNCHANGED <<exitCode, err, serverName, endpoints, client, pkce, state, entry, authUrl,
                 callback, tokenResponse>>
  /\ UNCHANGED <<file, file0, writes, discRequests, regRequests, tokenRequests, shown>>
  /\ UNCHANGED lsnVars

\* Step 2: Discover OAuth endpoints
Discover ==
  /\ pc = "discover"
  /\ \E res \in DiscoveryResponses :
       LET r == discoverOAuthEndpoints(ServerUrl, res)
       IN /\ discRequests' = Append(discRequests, [url |-> wellKnownUrl(ServerUrl), response |-> res])
          /\ IF r.ok
             THEN /\ endpoints' = Some(r.value)
                  /\ pc' = "register"
                  /\ err' = err
             ELSE /\ Fail(r.error)
                  /\ endpoints' = endpoints
  /\ steps' = Append(steps, "discover")
  /\ UNCHANGED <<exitCode, serverName, authData, client, pkce, state, entry, authUrl,
                 callback, tokenResponse>>
  /\ UNCHANGED <<file, file0, writes, regRequests, tokenRequests, shown>>
  /\ UNCHANGED lsnVars

NoRegistrationError ==
  <<"Server does not support dynamic client registration (no registration_endpoint in metadata)">>

\* the check for the registration endpoint left out
HasRegistrationAlways(ep) == TRUE

\* if (!endpoints.registrationEndpoint) throw ...
HasRegistration(ep) == TruthyStr(ep.registrationEndpoint)

\* Step 3: Register dynamic client
Register ==
  /\ pc = "register"
  /\ LET ep == The(endpoints)
     IN IF ~HasRegistration(ep)
        THEN /\ Fail(NoRegistrationError)
             /\ UNCHANGED <<client, regRequests>>
        ELSE \E res \in RegistrationResponses :
               LET r == registerClient(ep.registrationEndpoint, redirectUri, ClientName, res)
               IN /\ regRequests' = Append(regRequests,
                         [url |-> ep.registrationEndpoint,
                          body |-> RegistrationBody(redirectUri, ClientName)])
                  /\ IF r.ok
                     THEN /\ client' = Some(r.value)
                          /\ pc' = "pkce"
                          /\ err' = err
                     ELSE /\ Fail(r.error)
                          /\ client' = client
  /\ steps' = Append(steps, "register")
  /\ UNCHANGED <<exitCode, serverName, authData, endpoints, pkce, state, entry, authUrl,
                 callback, tokenResponse>>
  /\ UNCHANGED <<file, file0, writes, discRequests, tokenRequests, shown>>
  /\ UNCHANGED lsnVars

\* Step 4: Generate PKCE
GeneratePKCE ==
  /\ pc = "pkce"
  /\ \E random \in Verifiers : pkce' = Some(generatePKCE(random))
  /\ \E uuid \in States : state' = Some(uuid)
  /\ pc' = "checkpoint"
  /\ steps' = Append(steps, "pkce")
  /\ UNCHANGED <<exitCode, err, serverName, authData, endpoints, client, entry, authUrl,
                 callback, tokenResponse>>
  /\ UNCHANGED <<file, file0, writes, discRequests, regRequests, tokenRequests, shown>>
  /\ UNCHANGED lsnVars

\* generatePKCE() called on its own, for every value of the random bytes
CallGeneratePKCE ==
  /\ pc = "start"
  /\ pkce = {}
  /\ \E random \in RandomBytes : pkce' = Some(generatePKCE(random))
  /\ UNCHANGED <<pc, exitCode, err, serverName, authData, endpoints, client, state, entry,
                 authUrl, callback, tokenResponse>>
  /\ UNCHANGED wireVars
  /\ UNCHANGED lsnVars

\* the entry written alone instead of merged into the mapping read
SetEntryAlone(data, name, e) == [n \in {name} |-> e]

\* the fields of e assigned over the entry that was there
SetEntryMerged(data, name, e) ==
  [n \in DOMAIN data \cup {name} |->
     IF n # name THEN data[n]
     ELSE IF n \notin DOMAIN data THEN e
     ELSE [k \in DOMAIN data[n] \cup DOMAIN e |-> IF k \in DOMAIN e THEN e[k] ELSE data[n][k]]]

\* authData[name] = e
SetEntry(data, name, e) ==
  [n \in DOMAIN data \cup {name} |-> IF n = name THEN e ELSE data[n]]

\* only the PKCE state checkpointed
CheckpointEntryNoClient(c, p, s, url) ==
  [codeVerifier |-> Some(p.codeVerifier), oauthState |-> s, serverUrl |-> Some(url)]

CheckpointEntry(c, p, s, url) ==
  [clientInfo |-> [clientId |-> c.clientId, clientSecret |-> c.clientSecret,
                   clientIdIssuedAt |-> c.clientIdIssuedAt,
                   clientSecretExpiresAt |-> c.clientSecretExpiresAt],
   codeVerifier |-> Some(p.codeVerifier),
   oauthState |-> s,
   serverUrl |-> Some(url)]

WriteError == <<"EACCES: permission denied, open">>

\* Save intermediate state (codeVerifier, clientInfo) in case flow is interrupted.
\* writeFileSync either completes or throws at open and leaves the disk alone.
Checkpoint ==
  /\ pc = "checkpoint"
  /\ entry' = CheckpointEntry(The(client), The(pkce), state, ServerUrl)
  /\ authData' = SetEntry(authData, serverName, entry')
  /\ \/ /\ file' = writeAuthFile(authData', file)
        /\ writes' = writes + 1
        /\ pc' = "build_url"
        /\ err' = err
     \/ /\ Fail(WriteError)
        /\ UNCHANGED <<file, writes>>
  /\ steps' = Append(steps, "checkpoint")
  /\ UNCHANGED <<exitCode, serverName, endpoints, client, pkce, state, authUrl,
                 callback, tokenResponse>>
  /\ UNCHANGED <<file0, discRequests, regRequests, tokenRequests, shown>>
  /\ UNCHANGED lsnVars

\* Step 5: Build authorization URL
BuildUrl ==
  /\ pc = "build_url"
  /\ LET r == buildAuthorizationUrl(The(The(endpoints).authorizationEndpoint),
                                    The(The(client).clientId), redirectUri,
                                    The(pkce).codeChallenge, The(state))
     IN IF r.ok
        THEN /\ authUrl' = Some(r.value)
             /\ pc' = "open_browser"
             /\ err' = err
        ELSE /\ Fail(r.error)
             /\ authUrl' = authUrl
  /\ steps' = Append(steps, "build_url")
  /\ UNCHANGED <<exitCode, serverName, authData, endpoints, client, pkce, state, entry,
                 callback, tokenResponse>>
  /\ UNCHANGED <<file, file0, writes, discRequests, regRequests, tokenRequests, shown>>
  /\ UNCHANGED lsnVars

\* ... print the URL and open the browser
OpenBrowser ==
  /\ pc = "open_browser"
  /\ shown' = Append(shown, The(authUrl))
  /\ pc' = "start_server"
  /\ steps' = Append(steps, "signal")
  /\ UNCHANGED <<exitCode, err, serverName, authData, endpoints, client, pkce, state, entry,
                 authUrl, callback, tokenResponse>>
  /\ UNCHANGED <<file, file0, writes, discRequests, regRequests, tokenRequests>>
  /\ UNCHANGED lsnVars

(* ------------------------------ server.ts ----------------------------- *)
CallbackPath == <<"/", "c", "a", "l", "l", "b", "a", "c", "k">>
StartsWith(str, prefix) ==
  Len(str) >= Len(prefix) /\ SubSeq(str, 1, Len(prefix)) = prefix

\* A request: the path of req.url and the query parameters searchParams.get reads
Req(path, code, st, error, errorDescription) ==
  [path |-> path, code |-> code, state |-> st, error |-> error,
   error_description |-> errorDescription]

Requests ==
  { Req(CallbackPath, Some("abc"), Some(s), None, None) : s \in States }
  \cup
  { Req(CallbackPath, Some("abc"), None, None, None),
    Req(CallbackPath, None, Some("X"), None, None),
    Req(CallbackPath, Some(""), Some("X"), None, None),
    Req(CallbackPath, None, None, Some("access_denied"), None),
    Req(CallbackPath, None, None, Some("access_denied"), Some("denied")),
    Req(CallbackPath, Some("abc"), Some("X"), Some("access_denied"), None),
    Req(CallbackPath, Some("abc"), Some("X"), Some(""), None),
    Req(CallbackPath \o <<"X">>, Some("abc"), Some("X"), None, None),
    Req(<<"/">>, Some("abc"), Some("X"), None, None) }

\* the error looked at only when code or state is missing
HasErrorWithoutCode(req) ==
  TruthyStr(req.error) /\ (~TruthyStr(req.code) \/ ~TruthyStr(req.state))

\* if (error), tested before code and state
HasError(req) == TruthyStr(req.error)

\* the listener comparing the state of the request with the generated one
MissingParamsOrWrongState(req) ==
  ~TruthyStr(req.code) \/ ~TruthyStr(req.state) \/ req.state # state

\* if (!code || !state)
MissingParams(req) == ~TruthyStr(req.code) \/ ~TruthyStr(req.state)

\* the description left out of the message
AuthorizationErrorBare(error, errorDescription) == <<"Authorization error: ", The(error)>>

AuthorizationError(error, errorDescription) ==
  <<"Authorization error: ", The(error)>>
    \o (IF TruthyStr(errorDescription) THEN <<" - ", The(errorDescription)>> ELSE <<>>)
TimeoutError == <<"Timed out waiting for authorization callback (120s)">>
PortInUseError ==
  <<"Port ", ToString(callbackPort), " is already in use. Try a different port with --callback-port">>
StartFailedError(code) == <<"Failed to start callback server: ", code>>
\* no case for EADDRINUSE
ServerErrorMessageGeneric(code) == StartFailedError(code)

\* if (err.code === "EADDRINUSE") ... else ...
ServerErrorMessage(code) == IF code = "EADDRINUSE" THEN PortInUseError ELSE StartFailedError(code)

\* Promise semantics: only the first resolve or reject takes effect
Resolve(p, v) == IF p.status = "pending" THEN [status |-> "fulfilled", value |-> {v}, reason |-> {}] ELSE p
Reject(p, e) == IF p.status = "pending" THEN [status |-> "rejected", value |-> {}, reason |-> {e}] ELSE p

\* the guard left out: every terminal event settles
MaySettleAlways(s) == TRUE

\* if (!settled)
MaySettle(s) == ~s

\* A terminal event and the outcome its handler means to deliver
Terminal(event, outcome) == [event |-> event, outcome |-> outcome]

clearTimeout(t) == IF t = "armed" THEN "cleared" ELSE t
close(srv) == IF srv = "listening" THEN "closed" ELSE srv

\* The event loop runs a listener callback only while no continuation of main
\* is queued: main is suspended in an await, or has returned.
ListenerRuns ==
  \/ pc = "await_callback" /\ promise.status = "pending"
  \/ pc \in {"await_token", "success"}

\* startCallbackServer(port): create the server, arm the timer, register the
\* error handler, call listen; main then awaits the promise.
StartCallbackServer ==
  /\ pc = "start_server"
  /\ server' = "binding"
  /\ timeout' = "armed"
  /\ settled' = FALSE
  /\ promise' = Pending
  /\ port' = Some(callbackPort)
  /\ pc' = "await_callback"
  /\ steps' = Append(steps, "listen")
  /\ UNCHANGED <<exitCode, err, serverName, authData, endpoints, client, pkce, state, entry,
                 authUrl, callback, tokenResponse>>
  /\ UNCHANGED <<file, file0, writes, discRequests, regRequests, tokenRequests, shown>>
  /\ UNCHANGED <<calls, terminals, responses, lastReq, openConn, nerr, errorCode>>

\* server.listen succeeded
Listening ==
  /\ ListenerRuns
  /\ server = "binding"
  /\ server' = "listening"
  /\ UNCHANGED <<timeout, settled, promise, calls, terminals, responses, lastReq, openConn, nerr, errorCode, port>>
  /\ UNCHANGED <<mainVars, wireVars>>

\* the 400 branch also calls cleanup()
RequestHandlerCleansUpOn400 ==
  /\ ListenerRuns
  /\ server = "listening" \/ (server = "closed" /\ openConn)
  /\ Len(responses) < MaxRequests
  /\ \E keepAlive \in BOOLEAN : openConn' = keepAlive
  /\ \E req \in Requests :
     /\ lastReq' = Some(req)
     /\ IF ~StartsWith(req.path, CallbackPath)
       THEN /\ responses' = Append(responses, 404)
            /\ UNCHANGED <<server, timeout, settled, promise, calls, terminals>>
       ELSE IF HasError(req)
       THEN /\ responses' = Append(responses, 200)
            /\ timeout' = clearTimeout(timeout)
            /\ server' = close(server)
            /\ terminals' = Append(terminals, Terminal("callback_error",
                 Reject(Pending, AuthorizationError(req.error, req.error_description))))
            /\ IF MaySettle(settled)
               THEN /\ settled' = TRUE
                    /\ calls' = Append(calls, "reject")
                    /\ promise' = Reject(promise, AuthorizationError(req.error, req.error_description))
               ELSE UNCHANGED <<settled, calls, promise>>
       ELSE IF MissingParams(req)
       THEN /\ responses' = Append(responses, 400)
            /\ timeout' = clearTimeout(timeout)
            /\ server' = close(server)
            /\ UNCHANGED <<settled, promise, calls, terminals>>
       ELSE /\ responses' = Append(responses, 200)
            /\ timeout' = clearTimeout(timeout)
            /\ server' = close(server)
            /\ terminals' = Append(terminals, Terminal("callback",
                 Resolve(Pending, [code |-> The(req.code), state |-> The(req.state)])))
            /\ IF MaySettle(settled)
               THEN /\ settled' = TRUE
                    /\ calls' = Append(calls, "resolve")
                    /\ promise' = Resolve(promise, [code |-> The(req.code), state |-> The(req.state)])
               ELSE UNCHANGED <<settled, calls, promise>>
  /\ UNCHANGED <<nerr, errorCode, port>>
  /\ UNCHANGED <<mainVars, wireVars>>

\* http.createServer((req, res) => ...).  A request arrives on a new connection
\* while the server listens, or on a connection that close() left open.
RequestHandler ==
  /\ ListenerRuns
  /\ server = "listening" \/ (server = "closed" /\ openConn)
  /\ Len(responses) < MaxRequests
  /\ \E keepAlive \in BOOLEAN : openConn' = keepAlive
  /\ \E req \in Requests :
     /\ lastReq' = Some(req)
     /\ IF ~StartsWith(req.path, CallbackPath)
       THEN /\ responses' = Append(responses, 404)
            /\ UNCHANGED <<server, timeout, settled, promise, calls, terminals>>
       ELSE IF HasError(req)
       THEN /\ responses' = Append(responses, 200)
            /\ timeout' = clearTimeout(timeout)
            /\ server' = close(server)
            /\ terminals' = Append(terminals, Terminal("callback_error",
                 Reject(Pending, AuthorizationError(req.error, req.error_description))))
            /\ IF MaySettle(settled)
               THEN /\ settled' = TRUE
                    /\ calls' = Append(calls, "reject")
                    /\ promise' = Reject(promise, AuthorizationError(req.error, req.error_description))
               ELSE UNCHANGED <<settled, calls, promise>>
       ELSE IF MissingParams(req)
       THEN /\ responses' = Append(responses, 400)
            /\ UNCHANGED <<server, timeout, settled, promise, calls, terminals>>
       ELSE /\ responses' = Append(responses, 200)
            /\ timeout' = clearTimeout(timeout)
            /\ server' = close(server)
            /\ terminals' = Append(terminals, Terminal("callback",
                 Resolve(Pending, [code |-> The(req.code), state |-> The(req.state)])))
            /\ IF MaySettle(settled)
               THEN /\ settled' = TRUE
                    /\ calls' = Append(calls, "resolve")
                    /\ promise' = Resolve(promise, [code |-> The(req.code), state |-> The(req.state)])
               ELSE UNCHANGED <<settled, calls, promise>>
  /\ UNCHANGED <<nerr, errorCode, port>>
  /\ UNCHANGED <<mainVars, wireVars>>

\* the timer callback only cleans up and never rejects
TimeoutFiresSilently ==
  /\ ListenerRuns
  /\ timeout = "armed"
  /\ server # "binding"
  /\ timeout' = "fired"
  /\ server' = close(server)
  /\ UNCHANGED <<settled, calls, promise, terminals, responses, lastReq, openConn, nerr, errorCode, port>>
  /\ UNCHANGED <<mainVars, wireVars>>

\* setTimeout(() => ..., timeoutMs).  listen completes within the turn after the
\* call, long before the 120 s timer can expire.
TimeoutFires ==
  /\ ListenerRuns
  /\ timeout = "armed"
  /\ server # "binding"
  /\ timeout' = "fired"
  /\ server' = close(server)
  /\ terminals' = Append(terminals, Terminal("timeout", Reject(Pending, TimeoutError)))
  /\ IF MaySettle(settled)
     THEN /\ settled' = TRUE
          /\ calls' = Append(calls, "reject")
          /\ promise' = Reject(promise, TimeoutError)
     ELSE UNCHANGED <<settled, calls, promise>>
  /\ UNCHANGED <<responses, lastReq, openConn, nerr, errorCode, port>>
  /\ UNCHANGED <<mainVars, wireVars>>

\* server.on("error", ...): listen fails (EADDRINUSE, EACCES), or accept fails
\* on the listening socket (EMFILE).  The handler does not close the server.
BindErrors == {"EADDRINUSE", "EACCES"}
AcceptErrors == {"EMFILE"}

ServerError ==
  /\ ListenerRuns
  /\ nerr < MaxErrors
  /\ \E code \in BindErrors \cup AcceptErrors :
       /\ errorCode' = Some(code)
       /\ \/ server = "binding" /\ code \in BindErrors /\ server' = "bind_failed"
          \/ server = "listening" /\ code \in AcceptErrors /\ server' = server
       /\ timeout' = clearTimeout(timeout)
       /\ terminals' = Append(terminals, Terminal("server_error",
            Reject(Pending, ServerErrorMessage(code))))
       /\ IF MaySettle(settled)
          THEN /\ settled' = TRUE
               /\ calls' = Append(calls, "reject")
               /\ promise' = Reject(promise, ServerErrorMessage(code))
          ELSE UNCHANGED <<settled, calls, promise>>
  /\ nerr' = nerr + 1
  /\ UNCHANGED <<responses, lastReq, openConn, port>>
  /\ UNCHANGED <<mainVars, wireVars>>

(* ------------------------ index.ts, continued ------------------------- *)
\* Step 6: const callback = await startCallbackServer(...)
AwaitCallback ==
  /\ pc = "await_callback"
  /\ promise.status # "pending"
  /\ IF promise.status = "fulfilled"
     THEN /\ callback' = promise.value
          /\ pc' = "verify"
          /\ err' = err
     ELSE /\ Fail(The(promise.reason))
          /\ callback' = callback
  /\ steps' = Append(steps, "await")
  /\ UNCHANGED <<exitCode, serverName, authData, endpoints, client, pkce, state, entry,
                 authUrl, tokenResponse>>
  /\ UNCHANGED <<file, file0, writes, discRequests, regRequests, tokenRequests, shown>>
  /\ UNCHANGED lsnVars

StateMismatchError == <<"OAuth state mismatch - possible CSRF attack">>

\* the comparison left out
StateMismatchNever(callbackState, generated) == FALSE

\* callback.state !== state
StateMismatch(callbackState, generated) == callbackState # generated

\* if (callback.state !== state) throw
VerifyState ==
  /\ pc = "verify"
  /\ IF StateMismatch(The(callback).state, The(state))
     THEN Fail(StateMismatchError)
     ELSE /\ pc' = "exchange"
          /\ err' = err
  /\ steps' = Append(steps, "verify")
  /\ UNCHANGED <<exitCode, serverName, authData, endpoints, client, pkce, state, entry,
                 authUrl, callback, tokenResponse>>
  /\ UNCHANGED <<file, file0, writes, discRequests, regRequests, tokenRequests, shown>>
  /\ UNCHANGED lsnVars

\* Step 7: Exchange code for tokens: the POST is sent
Exchange ==
  /\ pc = "exchange"
  /\ tokenRequests' = Append(tokenRequests,
        [url |-> The(The(endpoints).tokenEndpoint),
         body |-> TokenBody(The(callback).code, The(pkce).codeVerifier,
                            The(The(client).clientId), redirectUri)])
  /\ pc' = "await_token"
  /\ steps' = Append(steps, "exchange")
  /\ UNCHANGED <<exitCode, err, serverName, authData, endpoints, client, pkce, state, entry,
                 authUrl, callback, tokenResponse>>
  /\ UNCHANGED <<file, file0, writes, discRequests, regRequests, shown>>
  /\ UNCHANGED lsnVars

\* ... the response of the token endpoint arrives
TokenResponse ==
  /\ pc = "await_token"
  /\ \E res \in TokenResponses :
       LET r == exchangeCodeForTokens(The(The(endpoints).tokenEndpoint), res)
       IN IF r.ok
          THEN /\ tokenResponse' = Some(r.value)
               /\ pc' = "save"
               /\ err' = err
          ELSE /\ Fail(r.error)
               /\ tokenResponse' = tokenResponse
  /\ UNCHANGED <<exitCode, serverName, authData, endpoints, client, pkce, state, entry,
                 authUrl, callback>>
  /\ UNCHANGED wireVars
  /\ UNCHANGED lsnVars

\* only codeVerifier deleted
FinalEntryKeepsState(e, t, now) ==
  [k \in (DOMAIN e \cup {"tokens"}) \ {"codeVerifier"} |->
     IF k = "tokens"
     THEN [accessToken |-> t.access_token, refreshToken |-> t.refresh_token,
           expiresAt |-> IF TruthyNum(t.expires_in) THEN Some(now + The(t.expires_in)) ELSE None,
           scope |-> t.scope]
     ELSE e[k]]

\* the two deletes left out
FinalEntryKeepsTransient(e, t, now) ==
  [k \in DOMAIN e \cup {"tokens"} |->
     IF k = "tokens"
     THEN [accessToken |-> t.access_token, refreshToken |-> t.refresh_token,
           expiresAt |-> IF TruthyNum(t.expires_in) THEN Some(now + The(t.expires_in)) ELSE None,
           scope |-> t.scope]
     ELSE e[k]]

\* entry.tokens = {...}; delete entry.codeVerifier; delete entry.oauthState
FinalEntry(e, t, now) ==
  LET tokens == [accessToken |-> t.access_token,
                 refreshToken |-> t.refresh_token,
                 expiresAt |-> IF TruthyNum(t.expires_in) THEN Some(now + The(t.expires_in)) ELSE None,
                 scope |-> t.scope]
      withTokens == [k \in DOMAIN e \cup {"tokens"} |-> IF k = "tokens" THEN tokens ELSE e[k]]
  IN Restrict(withTokens, DOMAIN withTokens \ {"codeVerifier", "oauthState"})

\* Step 8: Save tokens
SaveTokens ==
  /\ pc = "save"
  /\ \E now \in Nows : entry' = FinalEntry(entry, The(tokenResponse), now)
  /\ authData' = SetEntry(authData, serverName, entry')
  /\ \/ /\ file' = writeAuthFile(authData', file)
        /\ writes' = writes + 1
        /\ pc' = "success"
        /\ err' = err
     \/ /\ Fail(WriteError)
        /\ UNCHANGED <<file, writes>>
  /\ steps' = Append(steps, "save")
  /\ UNCHANGED <<exitCode, serverName, endpoints, client, pkce, state, authUrl,
                 callback, tokenResponse>>
  /\ UNCHANGED <<file0, discRequests, regRequests, tokenRequests, shown>>
  /\ UNCHANGED lsnVars

\* Step 9: main returns; the process ends with code 0
Success ==
  /\ pc = "success"
  /\ pc' = "exited"
  /\ exitCode' = Some(0)
  /\ UNCHANGED <<err, serverName, authData, endpoints, client, pkce, state, entry,
                 authUrl, callback, tokenResponse>>
  /\ UNCHANGED wireVars
  /\ UNCHANGED lsnVars

\* the catch handler prints the error and lets the process end normally
MainCatchExitsZero ==
  /\ pc = "rejected"
  /\ pc' = "exited"
  /\ exitCode' = Some(0)
  /\ UNCHANGED <<err, serverName, authData, endpoints, client, pkce, state, entry,
                 authUrl, callback, tokenResponse>>
  /\ UNCHANGED wireVars
  /\ UNCHANGED lsnVars

\* main().catch((err) => { ...; process.exit(1) })
MainCatch ==
  /\ pc = "rejected"
  /\ pc' = "exited"
  /\ exitCode' = Some(1)
  /\ UNCHANGED <<err, serverName, authData, endpoints, client, pkce, state, entry,
                 authUrl, callback, tokenResponse>>
  /\ UNCHANGED wireVars
  /\ UNCHANGED lsnVars

(* --------------------------- specifications --------------------------- *)
Next ==
  \/ ReadAuthFile
  \/ Discover
  \/ Register
  \/ GeneratePKCE
  \/ Checkpoint
  \/ BuildUrl
  \/ OpenBrowser
  \/ StartCallbackServer
  \/ Listening
  \/ RequestHandler
  \/ TimeoutFires
  \/ ServerError
  \/ AwaitCallback
  \/ VerifyState
  \/ Exchange
  \/ TokenResponse
  \/ SaveTokens
  \/ Success
  \/ MainCatch

Spec == Init /\ [][Next]_vars

\* The event loop runs a callback that is ready: listen completes, and an
\* armed timer fires.
\* generatePKCE() reads no state: one start state is enough to call it from
PkceInit == Init /\ file = MissingFile(TRUE)
PkceSpec == PkceInit /\ [][CallGeneratePKCE]_vars

LiveSpec == Spec /\ WF_vars(Listening) /\ WF_vars(TimeoutFires)

(* ------------------------------- claims ------------------------------- *)
Failed == pc \in {"rejected", "exited"} /\ err # <<>>
Succeeded == pc = "success" \/ (pc = "exited" /\ exitCode = Some(0))
Last(seq) == seq[Len(seq)]

\* C1: the listener calls resolve or reject at most once in total, the promise
\* holds the outcome of the first terminal event (callback, callback error,
\* timeout, server error), and no later terminal event changes it.
C1_SingleSettlement ==
  /\ Len(calls) <= 1
  /\ settled <=> promise.status # "pending"
  /\ IF terminals = <<>>
     THEN promise.status = "pending" /\ calls = <<>>
     ELSE /\ promise = terminals[1].outcome
          /\ calls = <<IF promise.status = "fulfilled" THEN "resolve" ELSE "reject">>

C1_Witness ==
  /\ Len(terminals) >= 2
  /\ terminals[2].outcome # terminals[1].outcome
  /\ promise = terminals[1].outcome

\* C2: once the listener has resolved with a state other than the generated
\* one, main never reaches the token exchange: no token request is on the wire
\* and the flow ends with the state-mismatch error; every token request that
\* was sent follows a callback whose state equals the generated state.
C2_StateVerified ==
  /\ (promise.status = "fulfilled" /\ The(promise.value).state # The(state)) =>
        /\ tokenRequests = <<>>
        /\ pc \in {"await_callback", "verify", "rejected", "exited"}
        /\ (pc \in {"rejected", "exited"} => err = StateMismatchError)
        /\ exitCode # Some(0)
  /\ tokenRequests # <<>> =>
        /\ callback # {}
        /\ The(callback).state = The(state)
        /\ Len(tokenRequests) = 1

C2_Witness ==
  /\ pc = "exited"
  /\ err = StateMismatchError
  /\ The(callback).state # The(state)
  /\ tokenRequests = <<>>

HasKey(obj, k) == k \in DOMAIN obj

\* C3: after a successful flow the stored entry of the server-name has no
\* codeVerifier, no oauthState and a non-empty tokens.accessToken; and whenever
\* the entry this flow wrote has tokens, it has neither transient field.
C3_CheckpointHygiene ==
  /\ Succeeded =>
        /\ file.exists /\ file.valid /\ HasKey(file.data, serverName)
        /\ LET e == file.data[serverName]
           IN /\ ~HasKey(e, "codeVerifier")
              /\ ~HasKey(e, "oauthState")
              /\ HasKey(e, "tokens")
              /\ HasKey(e.tokens, "accessToken")
              /\ TruthyStr(e.tokens.accessToken)
  /\ (writes >= 1 /\ HasKey(file.data[serverName], "tokens")) =>
        /\ ~HasKey(file.data[serverName], "codeVerifier")
        /\ ~HasKey(file.data[serverName], "oauthState")

C3_Witness ==
  /\ pc = "exited"
  /\ exitCode = Some(0)
  /\ writes = 2
  /\ HasKey(file.data[serverName], "tokens")

\* C4: whenever the listener has delivered its outcome, the listening socket
\* is closed (or was never bound), on every exit path.
C4_ClosedOnEveryExit ==
  promise.status # "pending" => server \in {"closed", "bind_failed"}

\* C5: the timer is armed once; when it expires before any terminal event the
\* operation is rejected with the timeout error and the socket is closed; a
\* request answered 404 or 400 changes neither the operation, the timer nor
\* the socket; and a started listener always eventually settles its operation.
C5_TimeoutSettles ==
  /\ [](timeout = "fired" =>
          /\ terminals # <<>> /\ terminals[1].event = "timeout"
          /\ promise = Reject(Pending, TimeoutError)
          /\ server = "closed")
  /\ [][(Len(responses') > Len(responses) /\ Last(responses') \in {400, 404})
          => UNCHANGED <<promise, settled, calls, timeout, server>>]_vars
  /\ [][timeout' = "armed" => timeout \in {"none", "armed"}]_vars
  /\ (server = "binding" ~> settled)

C5_Witness ==
  /\ timeout = "fired"
  /\ responses = <<404, 400>>
  /\ promise = Reject(Pending, TimeoutError)
  /\ pc = "exited"

StepOrder ==
  <<"read", "discover", "register", "pkce", "checkpoint", "build_url", "signal", "listen",
    "await", "verify", "exchange", "save">>

\* C6: the steps main has run are always an initial part of the fixed order
\* (so each runs at most once and only after all earlier ones); once a step
\* has failed no further step runs, and the process then exits with code 1.
C6_LinearFailFast ==
  /\ [](/\ Len(steps) <= Len(StepOrder)
        /\ \A i \in 1..Len(steps) : steps[i] = StepOrder[i])
  /\ [](err # <<>> <=> (pc = "rejected" \/ (pc = "exited" /\ exitCode = Some(1))))
  /\ [](pc = "exited" /\ err = <<>> => exitCode = Some(0) /\ steps = StepOrder)
  /\ [][(pc \in {"rejected", "exited"}) => (steps' = steps /\ err' = err)]_vars

C6_Witness ==
  /\ pc = "exited"
  /\ exitCode = Some(1)
  /\ steps = SubSeq(StepOrder, 1, 10)
  /\ err = StateMismatchError

\* C7: when the discovered metadata has no registration_endpoint, main goes no
\* further than the registration step: it fails with the 'dynamic client
\* registration unsupported' error, sends no registration request and leaves
\* the auth file as it was.
C7_NoRegistrationEndpoint ==
  (endpoints # {} /\ The(endpoints).registrationEndpoint = None) =>
     /\ pc \in {"register", "rejected", "exited"}
     /\ regRequests = <<>>
     /\ file = file0 /\ writes = 0
     /\ (pc \in {"rejected", "exited"} => err = NoRegistrationError /\ exitCode # Some(0))

C7_Witness ==
  /\ pc = "exited"
  /\ endpoints # {}
  /\ The(endpoints).registrationEndpoint = None
  /\ err = NoRegistrationError

\* C8: when the flow has failed at discovery or at registration, the auth file
\* (existence, directory, permissions, content) is exactly as it was before
\* the invocation and nothing was written.
C8_EarlyFailureLeavesFile ==
  (Failed /\ Last(steps) \in {"discover", "register"}) => file = file0 /\ writes = 0

C8_Witness ==
  /\ pc = "exited"
  /\ Last(steps) = "register"
  /\ regRequests # <<>>
  /\ err = <<"Client registration did not return a client_id">>
  /\ ~file0.exists

\* C9: after the checkpoint write and after the final write, every other
\* server-name has exactly the entry it had before the invocation (or none if
\* it had none); a successful flow has written the file exactly twice; and a
\* missing file is read as the empty mapping.
C9_OtherEntriesKept ==
  /\ writes >= 1 =>
       \A n \in ServerNames \ {serverName} :
          IF file0.exists /\ file0.valid /\ HasKey(file0.data, n)
          THEN HasKey(file.data, n) /\ file.data[n] = file0.data[n]
          ELSE ~HasKey(file.data, n)
  /\ writes <= 2
  /\ Succeeded => writes = 2
  /\ (pc = "discover" /\ ~file0.exists) => authData = EmptyMap /\ err = <<>>

C9_Witness ==
  /\ Succeeded
  /\ writes = 2
  /\ file0.exists /\ file0.valid
  /\ HasKey(file0.data, "other")
  /\ file.data["other"] = OldCheckpoint

\* C10: when the authorization URL is shown, the checkpoint (clientInfo,
\* codeVerifier, oauthState, serverUrl) is already in the file; and after any
\* failure that follows the checkpoint the stored entry still holds the
\* registered client's clientInfo.
C10_CheckpointBeforeBrowser ==
  /\ shown # <<>> => writes >= 1
  /\ writes = 1 =>
        /\ HasKey(file.data, serverName)
        /\ DOMAIN file.data[serverName] = {"clientInfo", "codeVerifier", "oauthState", "serverUrl"}
        /\ file.data[serverName].codeVerifier = Some(The(pkce).codeVerifier)
        /\ file.data[serverName].oauthState = state
        /\ file.data[serverName].serverUrl = Some(ServerUrl)
        /\ file.data[serverName].clientInfo.clientId = The(client).clientId
  /\ (Failed /\ writes >= 1) =>
        /\ HasKey(file.data[serverName], "clientInfo")
        /\ file.data[serverName].clientInfo.clientId = The(client).clientId

C10_Witness ==
  /\ pc = "exited"
  /\ err = TimeoutError
  /\ writes = 1
  /\ shown # <<>>
  /\ file.data[serverName].clientInfo.clientId = Some("cid123")

CheckpointWindow ==
  {"build_url", "open_browser", "start_server", "await_callback", "verify", "exchange",
   "await_token", "save"}

\* C11 (as claimed): the entry this flow wrote holds codeVerifier or oauthState
\* only while the flow is between its checkpoint write and its token exchange.
C11_OnlyInWindow ==
  (writes >= 1 /\ (HasKey(file.data[serverName], "codeVerifier")
                   \/ HasKey(file.data[serverName], "oauthState")))
     => pc \in CheckpointWindow

\* C11 (amended): the entry this flow wrote holds this flow's codeVerifier and
\* oauthState from the checkpoint write until the final write completes, and
\* not after it; a flow that fails after the checkpoint leaves them stored.
C11_UntilFinalWrite ==
  writes >= 1 =>
     /\ HasKey(file.data[serverName], "codeVerifier") <=> writes = 1
     /\ HasKey(file.data[serverName], "oauthState") <=> writes = 1
     /\ writes = 1 =>
           /\ file.data[serverName].codeVerifier = Some(The(pkce).codeVerifier)
           /\ file.data[serverName].oauthState = state
     /\ (Failed /\ pc = "exited") => writes = 1

C11_Witness ==
  /\ pc = "exited"
  /\ exitCode = Some(1)
  /\ err = <<"Token response missing access_token">>
  /\ HasKey(file.data[serverName], "codeVerifier")
  /\ HasKey(file.data[serverName], "oauthState")

HandlesRequest == Len(responses') = Len(responses) + 1

\* C12: a request to /callback without code or without state, and without an
\* error parameter, is answered 400 and changes neither the operation, the
\* socket nor the timer; and while the operation is pending, a request to
\* /callback with code and state (and no error) resolves it with that
\* request's code and state, whatever was answered before.
C12_BadRequestKeepsListening ==
  /\ [][(/\ HandlesRequest
         /\ The(lastReq').path = CallbackPath
         /\ The(lastReq').error = None
         /\ (The(lastReq').code = None \/ The(lastReq').state = None))
        => (/\ Last(responses') = 400
            /\ UNCHANGED <<promise, settled, calls, server, timeout, terminals>>)]_vars
  /\ [][(/\ HandlesRequest
         /\ promise.status = "pending"
         /\ The(lastReq').path = CallbackPath
         /\ The(lastReq').error = None
         /\ TruthyStr(The(lastReq').code) /\ TruthyStr(The(lastReq').state))
        => (/\ Last(responses') = 200
            /\ promise' = Resolve(Pending, [code |-> The(The(lastReq').code),
                                            state |-> The(The(lastReq').state)]))]_vars

C12_Witness ==
  /\ responses = <<400, 200>>
  /\ The(lastReq).path = CallbackPath
  /\ promise = Resolve(Pending, [code |-> "abc", state |-> "Y"])
  /\ timeout = "cleared"
  /\ server = "closed"

\* C13: a request whose path is not exactly /callback is answered 404 and
\* changes neither the operation nor the listener.
C13_ExactCallbackPath ==
  [][(HandlesRequest /\ The(lastReq').path # CallbackPath)
       => (/\ Last(responses') = 404
           /\ UNCHANGED <<promise, settled, calls, server, timeout, terminals>>)]_vars

Contains(msg, fragment) == \E i \in 1..Len(msg) : msg[i] = fragment

\* C14: a /callback request with a (non-empty) error parameter that arrives
\* while the operation is pending rejects it with an error naming the error
\* code and, when there is one, the error_description, and closes the socket
\* and cancels the timer; after such a rejection no token request is sent and
\* no final write is made.
C14_CallbackErrorFails ==
  /\ [][(/\ HandlesRequest
         /\ promise.status = "pending"
         /\ The(lastReq').path = CallbackPath
         /\ TruthyStr(The(lastReq').error))
        => (/\ promise'.status = "rejected"
            /\ Contains(The(promise'.reason), The(The(lastReq').error))
            /\ TruthyStr(The(lastReq').error_description)
                 => Contains(The(promise'.reason), The(The(lastReq').error_description))
            /\ server' = "closed"
            /\ timeout' = "cleared"
            /\ calls' = <<"reject">>)]_vars
  /\ []((terminals # <<>> /\ terminals[1].event = "callback_error") =>
          /\ tokenRequests = <<>>
          /\ writes <= 1
          /\ pc \in {"await_callback", "rejected", "exited"}
          /\ exitCode # Some(0))

C14_Witness ==
  /\ pc = "exited"
  /\ exitCode = Some(1)
  /\ err = <<"Authorization error: ", "access_denied", " - ", "denied">>
  /\ server = "closed"
  /\ tokenRequests = <<>>

\* C15 (as claimed): every bind failure, port in use or permission denied,
\* rejects with the 'port in use' error.
C15_BindFailureIsPortInUse ==
  server = "bind_failed" => promise = Reject(Pending, PortInUseError)

\* C15 (amended): a bind failure rejects at once, with the 'port in use' error
\* exactly when the error code is EADDRINUSE and with the different 'failed to
\* start' error for any other code (EACCES); the timer is cancelled, no
\* request is answered and nothing else is delivered.
C15_BindFailureRejects ==
  server = "bind_failed" =>
     /\ promise.status = "rejected"
     /\ promise.reason = Some(PortInUseError) <=> errorCode = Some("EADDRINUSE")
     /\ errorCode # Some("EADDRINUSE") =>
           promise.reason = Some(<<"Failed to start callback server: ", The(errorCode)>>)
     /\ timeout = "cleared"
     /\ responses = <<>>
     /\ calls = <<"reject">>
     /\ Len(terminals) = 1
     /\ pc \in {"await_callback", "rejected", "exited"}

C15_Witness ==
  /\ server = "bind_failed"
  /\ errorCode = Some("EACCES")
  /\ pc = "exited"
  /\ err = <<"Failed to start callback server: ", "EACCES">>

\* C16: in the entry of the final write, tokens.expiresAt is present exactly
\* when the token response carried expires_in (0 included), and is then the
\* time of receipt plus expires_in.
C16_ExpiresAtFromExpiresIn ==
  writes = 2 =>
     LET tokens == file.data[serverName].tokens
         expiresIn == The(tokenResponse).expires_in
     IN IF expiresIn = None
        THEN ~HasKey(tokens, "expiresAt")
        ELSE /\ HasKey(tokens, "expiresAt")
             /\ \E now \in Nows : tokens.expiresAt = Some(now + The(expiresIn))

\* C17: after every write of writeAuthFile (checkpoint or final) the auth file
\* exists with owner-only permission, whether the write created it or it
\* existed with another permission, and its parent directory exists.
C17_OwnerOnlyAfterWrite ==
  writes >= 1 =>
     /\ file.dir
     /\ file.exists
     /\ file.mode = "0600"

\* C18: discovery succeeds exactly when the well-known URL answers 2xx with
\* JSON whose authorization_endpoint and token_endpoint are non-empty strings;
\* a missing registration_endpoint is returned absent; every other answer
\* yields one discovery error that names the well-known URL and wraps the cause.
C18_DiscoveryContract ==
  discRequests # <<>> =>
     LET url == discRequests[1].url
         res == discRequests[1].response
         authorizationEndpoint == Get(res.json, "authorization_endpoint")
         tokenEndpoint == Get(res.json, "token_endpoint")
         good == /\ res.net /\ res.status \in 200..299 /\ res.valid
                 /\ IsString(authorizationEndpoint) /\ TruthyStr(authorizationEndpoint)
                 /\ IsString(tokenEndpoint) /\ TruthyStr(tokenEndpoint)
     IN /\ url = <<ServerUrl[1], WellKnownPath>>
        /\ good <=> endpoints # {}
        /\ good =>
              /\ The(endpoints).authorizationEndpoint = authorizationEndpoint
              /\ The(endpoints).tokenEndpoint = tokenEndpoint
              /\ "registration_endpoint" \notin DOMAIN res.json
                    => The(endpoints).registrationEndpoint = None
        /\ ~good =>
              /\ pc \in {"rejected", "exited"}
              /\ steps = <<"read", "discover">>
              /\ Len(err) > 4
              /\ SubSeq(err, 1, 4) = <<"Failed to discover OAuth endpoints from ">> \o url \o <<": ">>

\* C19: every codeVerifier of generatePKCE is made of unreserved characters
\* only and is 43 to 128 characters long, whatever the 32 random bytes are:
\* stripping never leaves fewer than 43 characters.
C19_VerifierAlphabetAndLength ==
  pkce # {} =>
     LET codeVerifier == The(pkce).codeVerifier
     IN /\ Len(codeVerifier) >= 43
        /\ Len(codeVerifier) <= 128
        /\ \A i \in 1..Len(codeVerifier) : codeVerifier[i] \in Unreserved

C19_Witness ==
  /\ pkce # {}
  /\ Len(The(pkce).codeVerifier) = 43
  /\ \E i, j \in 1..43 : The(pkce).codeVerifier[i] = "-" /\ The(pkce).codeVerifier[j] = "_"

\* C20: the codeChallenge of a pair is base64url(SHA-256(codeVerifier)) over
\* the verifier that is returned, and neither string holds a padding character.
C20_ChallengeOfReturnedVerifier ==
  pkce # {} =>
     LET codeVerifier == The(pkce).codeVerifier
         codeChallenge == The(pkce).codeChallenge
         g == Sextets(Sha256(codeVerifier))
     IN /\ Len(codeChallenge) = Len(g)
        /\ \A i \in 1..Len(g) : codeChallenge[i] = Base64UrlAlphabet[g[i] + 1]
        /\ \A i \in 1..Len(codeVerifier) : codeVerifier[i] # "="
        /\ \A i \in 1..Len(codeChallenge) : codeChallenge[i] # "="

C20_Witness ==
  /\ pkce # {}
  /\ Len(The(pkce).codeChallenge) = 43
  /\ The(pkce).codeChallenge = Base64Url(Sha256(The(pkce).codeVerifier))
  /\ \E i \in 1..43 : The(pkce).codeVerifier[i] = "_"

\* the file read at the start held tokens under the server-name of this flow
HadTokens ==
  /\ file0.exists /\ file0.valid
  /\ HasKey(file0.data, serverName)
  /\ HasKey(file0.data[serverName], "tokens")

\* C21: the checkpoint write replaces the whole entry of the server-name: the
\* tokens an earlier invocation stored under it are gone from the file from the
\* checkpoint on, and are still gone when the flow fails afterwards.
C21_OldTokensReplaced ==
  (HadTokens /\ writes >= 1) =>
     /\ HasKey(file.data, serverName)
     /\ writes = 1 => ~HasKey(file.data[serverName], "tokens")
     /\ Failed => writes = 1 /\ ~HasKey(file.data[serverName], "tokens")
     /\ HasKey(file.data[serverName], "tokens") =>
           file.data[serverName].tokens # file0.data[serverName].tokens

C21_Witness ==
  /\ HadTokens
  /\ writes = 1
  /\ pc = "exited"
  /\ err = TimeoutError
  /\ ~HasKey(file.data[serverName], "tokens")

\* the listener has resolved with a state other than the generated one
ResolvedWithWrongState ==
  promise.status = "fulfilled" /\ The(promise.value).state # The(state)

\* C22: the listener does not compare the state: the first /callback request
\* with code and state (and no error) resolves the operation and ends the
\* listener even when its state is not the generated one; the flow then fails,
\* and no request that arrives afterwards, genuine or not, is handled or
\* changes the outcome main received.
C22_FirstCallbackEndsListener ==
  /\ [][(/\ HandlesRequest
         /\ promise.status = "pending"
         /\ The(lastReq').path = CallbackPath
         /\ ~TruthyStr(The(lastReq').error)
         /\ TruthyStr(The(lastReq').code) /\ TruthyStr(The(lastReq').state)
         /\ The(lastReq').state # state)
        => (/\ promise' = Resolve(Pending, [code |-> The(The(lastReq').code),
                                            state |-> The(The(lastReq').state)])
            /\ server' = "closed"
            /\ timeout' = "cleared"
            /\ Last(responses') = 200)]_vars
  /\ [][ResolvedWithWrongState
        => (/\ UNCHANGED <<promise, responses, lastReq, terminals>>
            /\ callback # {} => callback' = callback
            /\ ~Succeeded'
            /\ tokenRequests' = <<>>)]_vars

C22_Witness ==
  /\ ResolvedWithWrongState
  /\ Len(responses) = 1
  /\ The(lastReq).state # state
  /\ server = "closed"
  /\ pc = "exited"
  /\ err = StateMismatchError

\* C23: one flow uses the same values at every step.  The state of the
\* authorization URL is the checkpointed oauthState and the value the callback
\* is compared with; the code_verifier of the token request is the checkpointed
\* codeVerifier, and the challenge generatePKCE returned with that verifier is
\* the one in the authorization URL; client_id and
\* redirect_uri of the authorization URL and of the token request are the
\* registered client's id and the redirect URI sent at registration, whose
\* port is the port the listener is started on; and the final write keeps the
\* checkpoint's clientInfo and serverUrl.
C23_SameValuesThroughout ==
  /\ [](authUrl # {} =>
          /\ writes >= 1
          /\ The(authUrl).state = The(state)
          /\ The(authUrl).code_challenge = The(pkce).codeChallenge
          /\ The(authUrl).client_id = The(The(client).clientId)
          /\ The(authUrl).redirect_uri = regRequests[1].body.redirect_uris[1]
          /\ writes = 1 =>
                /\ file.data[serverName].oauthState = Some(The(authUrl).state)
                /\ file.data[serverName].codeVerifier = Some(The(pkce).codeVerifier))
  /\ [](port # {} =>
          regRequests[1].body.redirect_uris[1]
             = <<"http://localhost:", ToString(The(port)), "/callback">>)
  /\ [](tokenRequests # <<>> =>
          /\ The(callback).state = The(authUrl).state
          /\ tokenRequests[1].body.code = The(callback).code
          /\ tokenRequests[1].body.code_verifier = The(pkce).codeVerifier
          /\ tokenRequests[1].body.client_id = The(authUrl).client_id
          /\ tokenRequests[1].body.redirect_uri = The(authUrl).redirect_uri)
  /\ [][(writes = 0 /\ writes' = 1) =>
          /\ file'.data[serverName].oauthState = state
          /\ file'.data[serverName].codeVerifier = Some(The(pkce).codeVerifier)]_vars
  /\ [][(writes = 1 /\ tokenRequests' # tokenRequests) =>
          tokenRequests'[1].body.code_verifier = The(file.data[serverName].codeVerifier)]_vars
  /\ [][(writes = 1 /\ writes' = 2) =>
          /\ file'.data[serverName].clientInfo = file.data[serverName].clientInfo
          /\ file'.data[serverName].serverUrl = file.data[serverName].serverUrl]_vars

C23_Witness ==
  /\ Succeeded
  /\ writes = 2
  /\ port = Some(DefaultCallbackPort)
  /\ tokenRequests # <<>>
  /\ tokenRequests[1].body.redirect_uri = The(authUrl).redirect_uri
  /\ tokenRequests[1].body.code_verifier = The(pkce).codeVerifier
  /\ file.data[serverName].clientInfo.clientId = The(client).clientId

\* the request answered last carried error together with code and state
ErrorWithCodeAndState(req) ==
  /\ req.path = CallbackPath
  /\ TruthyStr(req.error)
  /\ TruthyStr(req.code)
  /\ TruthyStr(req.state)

\* C24: in the request handler error comes first: a /callback request with
\* error, code and state that arrives while the operation is pending rejects
\* it with the authorization error; the operation is never resolved with that
\* request's code and state, and main receives no callback.
C24_ErrorTakesPrecedence ==
  /\ [][(/\ HandlesRequest
         /\ promise.status = "pending"
         /\ ErrorWithCodeAndState(The(lastReq')))
        => (/\ promise' = Reject(Pending, AuthorizationError(The(lastReq').error,
                                                             The(lastReq').error_description))
            /\ calls' = <<"reject">>
            /\ Last(terminals').event = "callback_error"
            /\ Last(responses') = 200
            /\ server' = "closed")]_vars
  /\ [][promise.status = "rejected" => promise' = promise /\ callback' = {}]_vars
  /\ []((promise.status = "rejected" /\ Failed) => tokenRequests = <<>>)

C24_Witness ==
  /\ lastReq # {}
  /\ ErrorWithCodeAndState(The(lastReq))
  /\ Len(responses) = 1
  /\ promise.status = "rejected"
  /\ pc = "exited"
  /\ err = <<"Authorization error: ", "access_denied">>
  /\ callback = {}

====
